---------------------------- MODULE Spec2Model ----------------------------
(***************************************************************************)
(* Model of the bus ticket finder bot.                                     *)
(*                                                                         *)
(*   SpecClient : InfobusClient (src/infobus_client.py): the cached        *)
(*                session (PHPSESSID_cf, token, token_exp), the cookie jar *)
(*                of its requests.Session, _request_with_retries and       *)
(*                get_routes, one step per HTTP exchange.                  *)
(*   Spec       : checker_loop (src/bot.py) over Storage (src/data.py),    *)
(*                one step per subscription of a tick and per await, with  *)
(*                the /subscribe and /unsubscribe handlers running while   *)
(*                the loop is suspended in an await.                       *)
(*   SpecFair   : Spec with the scheduling of asyncio, for what the loop   *)
(*                eventually does.                                         *)
(*   SpecFn     : one call of in_range, hash_times_in_range or             *)
(*                extract_times, its arguments and its result.             *)
(*                                                                         *)
(* Optional[T] is a sequence: <<>> is None and <<v>> is the value v.       *)
(* Python strings that the code takes apart are sequences of one-character *)
(* strings.                                                                *)
(***************************************************************************)
EXTENDS Integers, Sequences, FiniteSets, TLC

None == <<>>
Some(v) == <<v>>

RECURSIVE Pow2(_)
Pow2(k) == IF k = 0 THEN 1 ELSE 2 * Pow2(k - 1)

(***************************************************************************)
(* Bounds of the model.                                                    *)
(***************************************************************************)
\* The clock readings are 0, 30, ..., 30 * MaxClockSteps seconds.
MaxClockSteps == 3
\* The loop's clock readings span MaxTickClockSteps half report intervals.
MaxTickClockSteps == 3
\* Storage hands out the ids 1..MaxId.
MaxId == 2

(***************************************************************************)
(* InfobusClient.__init__ defaults.                                        *)
(***************************************************************************)
max_retries == 4
backoff_base_seconds == 1
clock_skew_sec == 60

VARIABLES
  \* ---- InfobusClient ----
  phpsessid_cf,   \* self.phpsessid_cf : Optional[str]
  token,          \* self.token        : Optional[token text]
  token_exp,      \* self.token_exp    : Optional[int]
  cookies,        \* self.s.cookies    : cookie name -> Optional[value]
  now,            \* the last reading of time.time()
  pc,             \* where get_routes stands
  attempt,        \* _request_with_retries: attempt
  delays,         \* _request_with_retries: the sleeps made so far in this request
  tries,          \* _request_with_retries: calls of self.s.request in this request
  answered,       \* _request_with_retries: how many of them yielded an HTTP response
  responses,      \* statuses of the HTTP responses this get_routes call received to its POSTs
  trace,          \* the requests this get_routes call handed to _request_with_retries
  fresh0,         \* what _auth_is_fresh answered at line 84: "unknown", "fresh", "stale"
  hdr,            \* the headers dict of the search request: authorization, cookie
  result,         \* how the get_routes call ended
  refreshes,      \* calls of refresh_session_and_token that returned in this get_routes call
  primed,         \* the Set-Cookie of the priming response of this call's last refresh that
                  \* returned, in a sequence: <<>> when no refresh of this call has returned
  route,          \* city_from_id, city_to_id of this get_routes call
  primed_route,   \* city_from_id, city_to_id of the refresh that the cached session is of
  \* ---- Storage ----
  subs,           \* self._data["subs"]
  last_id,        \* self._data["last_id"]
  meta,           \* self._data["meta"] : key -> Optional[str]
  \* ---- checker_loop ----
  sched_pc,       \* where checker_loop stands: "start", "loop", "send", "sleep"
  tick_subs,      \* subs, the list that list_all_subs returned to this tick
  idx,            \* the position in tick_subs of the subscription in hand
  checks_count,   \* checks_count
  cur,            \* the locals of the loop body, and how the body ended
  last_sent,      \* per id, the matches of the last notification whose send returned and
                  \* whether both store writes after it returned
  decided,        \* has_matches, is_change, must_periodic_report, should_send of lines 70-78
  done,           \* this tick: the subscriptions whose loop body has ended and how, in order
  observed,       \* the ids for which a tick has found offers that match the window
  booked,         \* how lines 111-112 of the last tick ended: "ok" or the write that raised,
                  \* "none" once the next tick has begun
  \* ---- the helper functions, called on their own ----
  call,           \* the function called and its arguments
  ret             \* what it returned

client_vars == <<phpsessid_cf, token, token_exp, cookies, pc, attempt, delays,
                 tries, answered, responses, trace, fresh0, hdr, result, refreshes, primed,
                 route, primed_route>>
sched_vars == <<subs, last_id, meta, sched_pc, tick_subs, idx, checks_count, cur, last_sent,
                decided, done, observed, booked>>
fn_vars == <<call, ret>>

vars == <<client_vars, now, sched_vars, fn_vars>>

(***************************************************************************)
(* Token texts.  A token text is described by what _parse_jwt_exp looks    *)
(* at: the number of "." in it and what its middle segment decodes to.     *)
(*   payload: "ws"      the text is whitespace                             *)
(*            "opaque"  no payload segment is looked at                    *)
(*            "badb64"  urlsafe_b64decode or .decode("utf-8") raises       *)
(*            "badjson" json.loads raises                                  *)
(*            "notdict" the JSON value has no .get                         *)
(*            "noexp"   a JSON object without "exp"                        *)
(*            "strexp"  a JSON object whose "exp" is not an int            *)
(*            "intexp"  a JSON object whose "exp" is the int exp           *)
(***************************************************************************)
Text(d, p, e) == [dots |-> d, payload |-> p, exp |-> e]
WS == Text(0, "ws", 0)

TokenExps == {90, 150}
Tokens == {Text(1, "opaque", 0), Text(2, "badb64", 0)} \cup {Text(2, "intexp", e) : e \in TokenExps}

\* str.strip() of a captured group: a sequence of chunks, WS being whitespace.
RECURSIVE LStrip(_)
LStrip(s) == IF s # <<>> /\ Head(s) = WS THEN LStrip(Tail(s)) ELSE s
RECURSIVE RStrip(_)
RStrip(s) == IF s # <<>> /\ s[Len(s)] = WS THEN RStrip(SubSeq(s, 1, Len(s) - 1)) ELSE s
Strip(s) == RStrip(LStrip(s))

\* The HTML of a priming page, as TOKEN_PATTERNS see it: what the first
\* "var token = '...'" and the first 'var token = "..."' capture, if present.
Html(sq, dq) == [single |-> sq, double |-> dq]
Htmls ==
  {Html(None, None)}
    \cup {Html(Some(<<t>>), None) : t \in Tokens}
    \cup {Html(None, Some(<<WS, t, WS>>)) : t \in {Text(2, "intexp", 150)}}
    \cup {Html(Some(<<>>), Some(<<Text(2, "intexp", 150)>>)), Html(Some(<<WS>>), None)}

\* _extract_token_from_html: the first pattern that matches decides.
ExtractTokenFromHtml(html) ==
  LET FromGroup(g) == IF Strip(g) = <<>> THEN None ELSE Some(Strip(g)[1])
  IN  IF html.single # None THEN FromGroup(html.single[1])
      ELSE IF html.double # None THEN FromGroup(html.double[1])
      ELSE None

\* _parse_jwt_exp
ParseJwtExp(tok) ==
  IF tok = None \/ tok[1].dots # 2 THEN None
  ELSE IF tok[1].payload = "intexp" THEN Some(tok[1].exp)
  ELSE None

(***************************************************************************)
(* The cookie jar of the requests.Session.  The site sets the session      *)
(* cookie under differently cased names; a cookie with an empty value is   *)
(* stored, and is not found by "in" or .get (RequestsCookieJar answers     *)
(* KeyError for a falsy value).                                            *)
(***************************************************************************)
CookieNames == {"PHPSESSID_cf", "phpsessid_cf", "PHPSESSID_CF"}
Lower(name) == "phpsessid_cf"
Upper(name) == "PHPSESSID_CF"

\* The Set-Cookie of a response for the session cookie, if it has one.
SetCookie(n, v) == Some([name |-> n, value |-> v])
SetCookies == {None, SetCookie("PHPSESSID_cf", "s1"), SetCookie("PHPSESSID_cf", "s2"),
               SetCookie("PHPSESSID_cf", ""), SetCookie("phpsessid_cf", "s1"),
               SetCookie("PHPSESSID_CF", "s2")}

\* What a response's Set-Cookie does to the jar.
StoreCookie(jar, sc) == IF sc = None THEN jar ELSE [jar EXCEPT ![sc[1].name] = Some(sc[1].value)]

InJar(jar, key) == jar[key] # None /\ jar[key][1] # ""

\* _get_cookie_case_insensitive
GetCookieCaseInsensitive(jar, name) ==
  IF InJar(jar, name) THEN jar[name]
  ELSE IF InJar(jar, Lower(name)) THEN jar[Lower(name)]
  ELSE IF InJar(jar, Upper(name)) THEN jar[Upper(name)]
  ELSE None

(***************************************************************************)
(* _auth_is_fresh, at the clock reading t.                                 *)
(***************************************************************************)
\* Python's truth of an Optional[str], and of an Optional[token text] (a
\* token text is never the empty string: Text describes non-empty strings).
Truthy(o) == o # None /\ o[1] # ""
TruthyToken(o) == o # None

\* The comparison of line 199 made non-strict.
AuthIsFreshInclusive(tok, ck, ex, t) ==
  IF ~TruthyToken(tok) \/ ~Truthy(ck) THEN FALSE
  ELSE IF ex = None THEN FALSE
  ELSE t + clock_skew_sec <= ex[1]

\* An unknown expiry taken for a fresh one.
AuthIsFreshUnlessKnownStale(tok, ck, ex, t) ==
  IF ~TruthyToken(tok) \/ ~Truthy(ck) THEN FALSE
  ELSE IF ex = None THEN TRUE
  ELSE t + clock_skew_sec < ex[1]
AuthIsFresh(tok, ck, ex, t) ==
  IF ~TruthyToken(tok) \/ ~Truthy(ck) THEN FALSE
  ELSE IF ex = None THEN FALSE
  ELSE t + clock_skew_sec < ex[1]

\* Line 87 testing the token alone.
AuthMissingTokenOnly(tok, ck) == ~TruthyToken(tok)

\* line 87: if not self.token or not self.phpsessid_cf: raise
AuthMissing(tok, ck) == ~TruthyToken(tok) \/ ~Truthy(ck)

(***************************************************************************)
(* _request_with_retries.                                                  *)
(***************************************************************************)
\* An off-by-one loop bound: while attempt <= self.max_retries.
MoreAttemptsInclusive(a) == a <= max_retries

\* while attempt < self.max_retries
MoreAttempts(a) == a < max_retries

\* sleep_for = self.backoff_base_seconds * (2 ** attempt)
SleepFor(a) == backoff_base_seconds * Pow2(a)

\* What one self.s.request(...) can yield: an exception of the transport, or
\* an HTTP response (its status, its Set-Cookie for the session cookie, and
\* its body as a priming page and as a search result).
TransportFailures == {"Timeout", "ConnectionError"}
Statuses == {200, 401, 403, 500}
Bodies == {"json", "garbage"}
Outcome(k, st, sc, h, b) == [kind |-> k, status |-> st, set_cookie |-> sc, html |-> h, body |-> b]

Failures == {Outcome(k, 0, None, Html(None, None), "garbage") : k \in TransportFailures}
PrimingResponses ==
  {Outcome("response", 200, sc, h, "garbage") : sc \in SetCookies, h \in Htmls}
SearchResponses ==
  {Outcome("response", st, sc, Html(None, None), b) :
     st \in Statuses, sc \in {None, SetCookie("PHPSESSID_cf", "s2")}, b \in Bodies}

\* A retry layer that also retries a 5xx response.
RetriedOrServerError(o) == o.kind \in TransportFailures \/ o.status >= 500

\* except (requests.Timeout, requests.ConnectionError): anything else is returned.
Retried(o) == o.kind \in TransportFailures

\* if r.status_code in (401, 403), which get_routes asks once, after its first POST.
AuthFailure(status) == status \in {401, 403}
\* "while r.status_code in (401, 403)" in place of the "if".
RefreshAndResendAgain(at, status) == AuthFailure(status)

\* A refresh after any error status of the first search request.
RefreshAndResendOnError(at, status) == at = "POST1" /\ status >= 400
RefreshAndResend(at, status) == at = "POST1" /\ AuthFailure(status)

\* r.raise_for_status()
RaisesForStatus(status) == 400 <= status /\ status < 600

(***************************************************************************)
(* The client's state after construction.                                  *)
(***************************************************************************)
Clock == {30 * k : k \in 0..MaxClockSteps}
NoHeaders == [authorization |-> None, cookie |-> None]
Session == <<phpsessid_cf, token, token_exp>>
Requesting == {"GET0", "POST1", "GET1", "POST2"}
\* city_from_id, city_to_id of the subscriptions: a route and the way back
Routes == {<<"78", "2">>, <<"2", "78">>}
Yields(at) == Failures \cup (IF at \in {"GET0", "GET1"} THEN PrimingResponses ELSE SearchResponses)

InitClient ==
  /\ phpsessid_cf = None
  /\ token = None
  /\ token_exp = None
  /\ cookies = [n \in CookieNames |-> None]
  /\ pc = "idle"
  /\ attempt = 0
  /\ delays = <<>>
  /\ tries = 0
  /\ answered = 0
  /\ responses = <<>>
  /\ trace = <<>>
  /\ fresh0 = "unknown"
  /\ hdr = NoHeaders
  /\ result = "none"
  /\ refreshes = 0
  /\ primed = <<>>
  /\ route = None
  /\ primed_route = None

\* headers["authorization"], headers["cookie"]
Headers(tok, ck) == [authorization |-> tok, cookie |-> ck]

\* A call of _request_with_retries begins: attempt = 0.
BeginRequest(at) ==
  /\ pc' = at
  /\ attempt' = 0
  /\ delays' = <<>>
  /\ tries' = 0
  /\ answered' = 0
  /\ trace' = Append(trace, IF at \in {"GET0", "GET1"} THEN "GET" ELSE "POST")

\* get_routes ends, after a response (yielded = 1) or without one.
\* get_routes swallowing the terminal error of the retry layer.
FinishQuietly(how, yielded) ==
  /\ pc' = "done"
  /\ result' = IF how = "RetriesExhausted" THEN "returned" ELSE how
  /\ tries' = tries + yielded
  /\ answered' = answered + yielded
  /\ UNCHANGED <<attempt, delays, trace>>
Finish(how, yielded) ==
  /\ pc' = "done"
  /\ result' = how
  /\ tries' = tries + yielded
  /\ answered' = answered + yielded
  /\ UNCHANGED <<attempt, delays, trace>>

(***************************************************************************)
(* get_routes, lines 84-124: the freshness test and what follows it up to  *)
(* the first request.  _auth_is_fresh reads the clock at line 198 only.    *)
(***************************************************************************)
GetRoutes ==
  /\ UNCHANGED <<sched_vars, fn_vars>>
  /\ pc \in {"idle", "done"}
  /\ \E t \in Clock :
       /\ t >= now
       /\ now' = IF AuthMissing(token, phpsessid_cf) \/ token_exp = None THEN now ELSE t
       /\ responses' = <<>>
       /\ refreshes' = 0
       /\ primed' = <<>>
       /\ IF ~AuthIsFresh(token, phpsessid_cf, token_exp, t)
            THEN /\ fresh0' = "stale"
                 /\ pc' = "GET0"
                 /\ trace' = <<"GET">>
                 /\ hdr' = NoHeaders
                 /\ result' = "none"
            ELSE /\ fresh0' = "fresh"
                 /\ IF AuthMissing(token, phpsessid_cf)
                      THEN /\ pc' = "done"
                           /\ trace' = <<>>
                           /\ hdr' = NoHeaders
                           /\ result' = "AuthMissing"
                      ELSE /\ pc' = "POST1"
                           /\ trace' = <<"POST">>
                           /\ hdr' = Headers(token, phpsessid_cf)
                           /\ result' = "none"
       /\ attempt' = 0 /\ delays' = <<>> /\ tries' = 0 /\ answered' = 0
  /\ \E r \in Routes : route' = Some(r)
  /\ UNCHANGED <<phpsessid_cf, token, token_exp, cookies, primed_route>>

(***************************************************************************)
(* _request_with_retries, one pass of its loop that ends in the except     *)
(* clause: sleep, attempt += 1.                                            *)
(***************************************************************************)
TransportFailure ==
  /\ UNCHANGED <<sched_vars, fn_vars>>
  /\ pc \in Requesting
  /\ MoreAttempts(attempt)
  /\ \E o \in Yields(pc) :
       /\ Retried(o)
       /\ tries' = tries + 1
       /\ answered' = answered + (IF o.kind = "response" THEN 1 ELSE 0)
       /\ delays' = Append(delays, SleepFor(attempt))
       /\ attempt' = attempt + 1
  /\ UNCHANGED <<phpsessid_cf, token, token_exp, cookies, now, pc, responses, trace,
                 fresh0, hdr, result, refreshes, primed, route, primed_route>>

\* The loop is left: raise RuntimeError("Request failed after ... retries").
RetriesExhausted ==
  /\ UNCHANGED <<sched_vars, fn_vars>>
  /\ pc \in Requesting
  /\ ~MoreAttempts(attempt)
  /\ Finish("RetriesExhausted", 0)
  /\ UNCHANGED <<phpsessid_cf, token, token_exp, cookies, now, responses, fresh0, hdr,
                 refreshes, primed, route, primed_route>>

(***************************************************************************)
(* refresh_session_and_token, from the priming response on (lines 61-67),  *)
(* and get_routes up to its next request: line 87 after the first refresh, *)
(* lines 129-136 after the refresh that follows a 401/403.                 *)
(***************************************************************************)
PrimingResponse ==
  /\ UNCHANGED <<sched_vars, fn_vars>>
  /\ pc \in {"GET0", "GET1"}
  /\ MoreAttempts(attempt)
  /\ \E o \in Yields(pc) :
       LET jar == StoreCookie(cookies, o.set_cookie)
           ck  == GetCookieCaseInsensitive(jar, "PHPSESSID_cf")
           tok == ExtractTokenFromHtml(o.html)
           ex  == IF TruthyToken(tok) THEN ParseJwtExp(tok) ELSE None
       IN  /\ ~Retried(o)
           /\ cookies' = jar
           /\ refreshes' = refreshes + 1
           /\ primed' = <<o.set_cookie>>
           /\ phpsessid_cf' = ck
           /\ token' = tok
           /\ token_exp' = ex
           /\ primed_route' = route
           /\ IF pc = "GET0" /\ AuthMissing(tok, ck)
                THEN /\ Finish("AuthMissing", 1)
                     /\ UNCHANGED hdr
                ELSE /\ BeginRequest(IF pc = "GET0" THEN "POST1" ELSE "POST2")
                     /\ hdr' = Headers(tok, ck)
                     /\ UNCHANGED result
  /\ UNCHANGED <<now, responses, fresh0, route>>

(***************************************************************************)
(* get_routes from the response to a search request on (lines 126-139).    *)
(***************************************************************************)
SearchResponse ==
  /\ UNCHANGED <<sched_vars, fn_vars>>
  /\ pc \in {"POST1", "POST2"}
  /\ MoreAttempts(attempt)
  /\ \E o \in Yields(pc) :
       /\ ~Retried(o)
       /\ cookies' = StoreCookie(cookies, o.set_cookie)
       /\ responses' = Append(responses, o.status)
       /\ IF RefreshAndResend(pc, o.status)
            THEN /\ BeginRequest("GET1")
                 /\ UNCHANGED result
            ELSE Finish(IF RaisesForStatus(o.status) THEN "HTTPError"
                        ELSE IF o.body = "json" THEN "returned"
                        ELSE "JSONDecodeError", 1)
  /\ UNCHANGED <<phpsessid_cf, token, token_exp, now, fresh0, hdr, refreshes, primed,
                 route, primed_route>>

NextClient ==
  \/ GetRoutes
  \/ TransportFailure
  \/ RetriesExhausted
  \/ PrimingResponse
  \/ SearchResponse

(***************************************************************************)
(* src/config.py                                                           *)
(***************************************************************************)
CHECK_EVERY_SEC == 120
REPORT_EVERY_SEC == 1800

(***************************************************************************)
(* Python text that the code takes apart: a sequence of characters.        *)
(* Alphabet lists the characters that occur, in code point order.          *)
(***************************************************************************)
Alphabet == <<"\n", "-", "0", "1", "2", "3", "4", "5", "6", "7", "8", "9", ":", ">", "|">>
Ord(c) == CHOOSE i \in DOMAIN Alphabet : Alphabet[i] = c
IsDigit(c) == c \in {"0", "1", "2", "3", "4", "5", "6", "7", "8", "9"}
DigitVal(c) == Ord(c) - Ord("0")
DigitChar(d) == Alphabet[Ord("0") + d]

\* a < b for str: lexicographic by code point
RECURSIVE StrLess(_, _)
StrLess(a, b) ==
  IF b = <<>> THEN FALSE
  ELSE IF a = <<>> THEN TRUE
  ELSE IF Ord(Head(a)) < Ord(Head(b)) THEN TRUE
  ELSE IF Ord(Head(a)) > Ord(Head(b)) THEN FALSE
  ELSE StrLess(Tail(a), Tail(b))

\* str(n) for an int n >= 0
RECURSIVE Str(_)
Str(n) == IF n < 10 THEN <<DigitChar(n)>> ELSE Str(n \div 10) \o <<DigitChar(n % 10)>>

\* int(s) for a text s of decimal digits
RECURSIVE IntOf(_)
IntOf(s) == IF s = <<>> THEN 0 ELSE IntOf(SubSeq(s, 1, Len(s) - 1)) * 10 + DigitVal(s[Len(s)])

\* x or "0", for x : Optional[str]
OrZero(x) == IF x = None \/ x[1] = <<>> THEN <<"0">> ELSE x[1]

(***************************************************************************)
(* src/bot.py: hhmm_to_int, in_range, hash_times_in_range                  *)
(***************************************************************************)
\* re.match(r"^(\d{1,2}):(\d{2})$", hhmm); $ also matches before one final newline.
HhmmToInt(hhmm) ==
  LET t == IF hhmm # <<>> /\ hhmm[Len(hhmm)] = "\n" THEN SubSeq(hhmm, 1, Len(hhmm) - 1) ELSE hhmm
  IN  IF Len(t) = 4 /\ IsDigit(t[1]) /\ t[2] = ":" /\ IsDigit(t[3]) /\ IsDigit(t[4])
      THEN DigitVal(t[1]) * 100 + (DigitVal(t[3]) * 10 + DigitVal(t[4]))
      ELSE IF Len(t) = 5 /\ IsDigit(t[1]) /\ IsDigit(t[2]) /\ t[3] = ":" /\ IsDigit(t[4]) /\ IsDigit(t[5])
      THEN (DigitVal(t[1]) * 10 + DigitVal(t[2])) * 100 + (DigitVal(t[4]) * 10 + DigitVal(t[5]))
      ELSE 0

InRangeExclusive(hhmm, start_hhmm, end_hhmm) ==
  LET v == HhmmToInt(hhmm)
      a == HhmmToInt(start_hhmm)
      b == HhmmToInt(end_hhmm)
  IN  IF a <= b THEN a <= v /\ v < b ELSE v >= a \/ v <= b
InRange(hhmm, start_hhmm, end_hhmm) ==
  LET v == HhmmToInt(hhmm)
      a == HhmmToInt(start_hhmm)
      b == HhmmToInt(end_hhmm)
  IN  IF a <= b THEN a <= v /\ v <= b ELSE v >= a \/ v <= b

\* [t for t in times if in_range(t["depart"], dep_from, dep_to)]
RECURSIVE Matches(_, _, _)
Matches(times, dep_from, dep_to) ==
  IF times = <<>> THEN <<>>
  ELSE (IF InRange(Head(times).depart, dep_from, dep_to) THEN <<Head(times)>> ELSE <<>>)
       \o Matches(Tail(times), dep_from, dep_to)

\* "|".join(picked)
RECURSIVE Join(_)
Join(picked) ==
  IF picked = <<>> THEN <<>>
  ELSE IF Len(picked) = 1 THEN picked[1]
  ELSE picked[1] \o <<"|">> \o Join(Tail(picked))

HashTimesInRangeAfterFirst(times, dep_from, dep_to) ==
  LET m == Matches(times, dep_from, dep_to)
      rest == SubSeq(m, 2, Len(m))
  IN  Join([i \in DOMAIN rest |-> rest[i].depart \o <<"-", ">">> \o rest[i].arrive])
HashDepartsInRange(times, dep_from, dep_to) ==
  LET m == Matches(times, dep_from, dep_to)
  IN  Join([i \in DOMAIN m |-> m[i].depart])
HashTimesInRange(times, dep_from, dep_to) ==
  LET m == Matches(times, dep_from, dep_to)
  IN  Join([i \in DOMAIN m |-> m[i].depart \o <<"-", ">">> \o m[i].arrive])

(***************************************************************************)
(* src/infobus_client.py: extract_times                                    *)
(***************************************************************************)
\* f"{dep[:2]}:{dep[2:]}" if len(dep) == 4 else dep
Clock4(dep) == IF Len(dep) = 4 THEN SubSeq(dep, 1, 2) \o <<":">> \o SubSeq(dep, 3, 4) ELSE dep

\* result.sort(key=lambda x: x["depart"]): stable, ascending
RECURSIVE SortInsert(_, _)
SortInsert(x, sorted) ==
  IF sorted = <<>> THEN <<x>>
  ELSE IF StrLess(x.depart, Head(sorted).depart) THEN <<x>> \o sorted
  ELSE <<Head(sorted)>> \o SortInsert(x, Tail(sorted))
RECURSIVE SortByDepart(_)
SortByDepart(items) ==
  IF items = <<>> THEN <<>>
  ELSE SortInsert(items[Len(items)], SortByDepart(SubSeq(items, 1, Len(items) - 1)))

\* A route of the search response, and the JSON of a search response: "status",
\* and "routes" absent, null or a list.
Route(dep, arr, price) == [ClearDepTime |-> dep, ClearArrTime |-> arr, price |-> price]
Json(status, kind, routes) == [status |-> status, routes_kind |-> kind, routes |-> routes]

\* extract_times: raised, when iterating the routes raises, or the list
ExtractTimes(routes_response) ==
  IF ~routes_response.status THEN [raised |-> FALSE, times |-> <<>>]
  ELSE IF routes_response.routes_kind = "absent" THEN [raised |-> FALSE, times |-> <<>>]
  ELSE IF routes_response.routes_kind = "null" THEN [raised |-> TRUE, times |-> <<>>]
  ELSE [raised |-> FALSE,
        times |-> SortByDepart([i \in DOMAIN routes_response.routes |->
                    [depart |-> Clock4(routes_response.routes[i].ClearDepTime),
                     arrive |-> Clock4(routes_response.routes[i].ClearArrTime),
                     price_eur |-> routes_response.routes[i].price]])]

(***************************************************************************)
(* src/data.py: Storage over self._data = {"last_id", "subs", "meta"}.     *)
(* A Subscription keeps here the fields checker_loop decides on: id,       *)
(* user_id, the departure window and last_hash.                            *)
(***************************************************************************)
\* f"sub:{s.id}:last_report_ts"
SubKey(id) == "sub:" \o ToString(id) \o ":last_report_ts"
MetaKeys == {"last_check_ts", "checks_count"} \cup {SubKey(i) : i \in 1..MaxId}

Subscription(id, user_id, dep_from, dep_to) ==
  [id |-> id, user_id |-> user_id, dep_from_hhmm |-> dep_from, dep_to_hhmm |-> dep_to, last_hash |-> <<>>]

\* add_sub creating the record with a fingerprint in it
AddSubReported(subsv, sid, user_id, dep_from, dep_to) ==
  Append(subsv, [Subscription(sid, user_id, dep_from, dep_to) EXCEPT !.last_hash = dep_from])

\* add_sub: the list after subs.append(s), with sid the value of _next_id()
AddSub(subsv, sid, user_id, dep_from, dep_to) ==
  Append(subsv, Subscription(sid, user_id, dep_from, dep_to))

\* del_sub: [s for s in subs if not (s.user_id == user_id and s.id == sub_id)]
RECURSIVE DelSub(_, _, _)
DelSub(subsv, user_id, sub_id) ==
  IF subsv = <<>> THEN <<>>
  ELSE (IF Head(subsv).user_id = user_id /\ Head(subsv).id = sub_id THEN <<>> ELSE <<Head(subsv)>>)
       \o DelSub(Tail(subsv), user_id, sub_id)

\* update_last_hash writing the record of a subscription that is not stored
UpdateLastHashOrInsert(subsv, sub_id, new_hash) ==
  IF \E i \in DOMAIN subsv : subsv[i].id = sub_id
  THEN [i \in DOMAIN subsv |->
          IF subsv[i].id = sub_id THEN [subsv[i] EXCEPT !.last_hash = new_hash] ELSE subsv[i]]
  ELSE Append(subsv, [Subscription(sub_id, 1, <<>>, <<>>) EXCEPT !.last_hash = new_hash])
\* update_last_hash, wrongly: the first subscription takes the fingerprint
UpdateLastHashOfFirst(subsv, sub_id, new_hash) ==
  [i \in DOMAIN subsv |-> IF i = 1 THEN [subsv[i] EXCEPT !.last_hash = new_hash] ELSE subsv[i]]

\* update_last_hash: the first subscription with that id takes the fingerprint
UpdateLastHash(subsv, sub_id, new_hash) ==
  [i \in DOMAIN subsv |->
     IF subsv[i].id = sub_id /\ \A j \in 1..(i - 1) : subsv[j].id # sub_id
     THEN [subsv[i] EXCEPT !.last_hash = new_hash]
     ELSE subsv[i]]

GetMeta(metav, key) == metav[key]
SetMeta(metav, key, value) == [metav EXCEPT ![key] = Some(value)]

(***************************************************************************)
(* src/bot.py: checker_loop, the decision of lines 69-86                   *)
(***************************************************************************)
\* must_periodic_report, wrongly: only after more than the interval
MustPeriodicReportLater(has_matches, now_ts, last_report_ts) ==
  has_matches /\ now_ts - last_report_ts > REPORT_EVERY_SEC

MustPeriodicReport(has_matches, now_ts, last_report_ts) ==
  has_matches /\ now_ts - last_report_ts >= REPORT_EVERY_SEC

\* is_change, wrongly: any fingerprint is a change
IsChangeAlways(new_hash, last_hash) == new_hash # <<>>

IsChangeDiffers(new_hash, last_hash) == new_hash # last_hash
IsChange(new_hash, last_hash) == new_hash # <<>> /\ new_hash # last_hash

\* the for statement, wrongly: an exception in the body ends the loop
AfterBodyUnlessRaised(i, n, outcome) ==
  IF outcome \in {"failed", "send_failed", "persist_failed"} THEN n + 1 ELSE i + 1

\* Lines 52-109: the for statement takes the next of the n subscriptions however
\* the body for the i-th ended; line 108 catches what the body raises.
AfterBodySkipping(i, n, outcome) == i + 2
AfterBody(i, n, outcome) == i + 1

\* line 97, wrongly: a send that raised is made again
AfterSendRetried(sent) == IF sent THEN "loop" ELSE "send"

\* Line 97 is called once: when it raises, line 108 catches it and the loop goes on.
AfterSend(sent) == "loop"

\* lines 111-112, wrongly: the counter is not written
BookkeepTimestampOnly(metav, t, count, raises) == SetMeta(metav, "last_check_ts", Str(t))

\* Lines 111-112: the two set_meta, each changing self._data before its _flush,
\* which may raise; raises names the one that does.
Bookkeep(metav, t, count, raises) ==
  IF raises = "last_check_ts"
  THEN SetMeta(metav, "last_check_ts", Str(t))
  ELSE SetMeta(SetMeta(metav, "last_check_ts", Str(t)), "checks_count", Str(count))

\* lines 113-116, wrongly: a loop-level exception ends the coroutine
AfterTickUnlessRaised(raises) == IF raises = "none" THEN "sleep" ELSE "crashed"

\* Lines 113-116: line 113 catches what the tick raises, and line 116 is awaited.
AfterTick(raises) == "sleep"

\* the else branch of line 86, wrongly: it stamps the report time
NoSendStamped(metav, id, now_ts) == SetMeta(metav, SubKey(id), Str(now_ts))

\* the else branch of line 86 (lines 103-106): the meta it leaves
NoSend(metav, id, now_ts) == metav

(***************************************************************************)
(* What the model feeds checker_loop and the command handlers.             *)
(***************************************************************************)
S2000 == <<"2", "0", ":", "0", "0">>
S2300 == <<"2", "3", ":", "0", "0">>
S2200 == <<"2", "2", ":", "0", "0">>
S0100 == <<"0", "1", ":", "0", "0">>
R2100 == Route(<<"2", "1", "0", "0">>, <<"2", "1", "4", "5">>, "10")
R2230 == Route(<<"2", "2", ":", "3", "0">>, <<"2", "3", ":", "1", "0">>, "12")

\* /subscribe: the user and the window 20:00-23:00
SubscribeArgs ==
  { [user_id |-> 1, dep_from_hhmm |-> S2000, dep_to_hhmm |-> S2300] }
\* m.from_user.id of /unsubscribe: the subscriber or somebody else
Users == {1, 2}

\* r.json() of the search response that get_routes returns
RoutesResponses ==
  { Json(TRUE, "list", <<R2230, R2100>>),
    Json(TRUE, "list", <<R2100>>),
    Json(FALSE, "list", <<R2100>>),
    Json(TRUE, "absent", <<>>),
    Json(TRUE, "null", <<>>) }

\* client.get_routes(...) raises or returns; SpecClient has its steps.
QueryOutcomes ==
  {[raised |-> TRUE, json |-> Json(FALSE, "absent", <<>>)]}
    \cup {[raised |-> FALSE, json |-> r] : r \in RoutesResponses}

\* int(time.time()) as the loop reads it: time passes in the sleep of line 116
\* and in the query of line 58.
SchedClock == {REPORT_EVERY_SEC + (REPORT_EVERY_SEC \div 2) * k : k \in 0..MaxTickClockSteps}

\* The locals of the loop body for the subscription in hand.
Locals(id, outcome, times, new_hash, now_ts) ==
  [id |-> id, outcome |-> outcome, times |-> times, new_hash |-> new_hash, now_ts |-> now_ts]
NoLocals == Locals(0, "none", <<>>, <<>>, 0)
NeverSent == [sent |-> FALSE, matches |-> <<>>, persisted |-> FALSE]
Decision(has_matches, is_change, must_periodic_report, should_send) ==
  [has_matches |-> has_matches, is_change |-> is_change,
   must_periodic_report |-> must_periodic_report, should_send |-> should_send]
NoDecision == Decision(FALSE, FALSE, FALSE, FALSE)
Ended(id, outcome) == [id |-> id, outcome |-> outcome]

(***************************************************************************)
(* A call of one of the helper functions on its own: the arguments and the *)
(* result.  Times of day are drawn as <<hour, minute>> and handed to the   *)
(* function as the text "HH:MM".                                           *)
(***************************************************************************)
Hhmm(hm) ==
  <<DigitChar(hm[1] \div 10), DigitChar(hm[1] % 10), ":",
    DigitChar(hm[2] \div 10), DigitChar(hm[2] % 10)>>
Offer(depart, arrive, price_eur) == [depart |-> depart, arrive |-> arrive, price_eur |-> price_eur]

NoCall ==
  [fn |-> "none", time |-> <<0, 0>>, start |-> <<0, 0>>, end |-> <<0, 0>>,
   times |-> <<>>, other |-> <<>>, json |-> Json(FALSE, "absent", <<>>)]
NoRet == [bool |-> FALSE, text |-> <<>>, other_text |-> <<>>, raised |-> FALSE, times |-> <<>>]

InitFn ==
  /\ call = NoCall
  /\ ret = NoRet

InitScheduler ==
  /\ subs = <<>>
  /\ last_id = 0
  /\ meta = [k \in MetaKeys |-> None]
  /\ sched_pc = "start"
  /\ tick_subs = <<>>
  /\ idx = 1
  /\ checks_count = 0
  /\ cur = NoLocals
  /\ last_sent = [i \in 1..MaxId |-> NeverSent]
  /\ decided = NoDecision
  /\ done = <<>>
  /\ observed = {}
  /\ booked = "none"

Init ==
  /\ InitClient
  /\ InitScheduler
  /\ InitFn
  /\ now = REPORT_EVERY_SEC

\* Lines 48-50: the tick takes the list of subscriptions and the tick number.
TickStart ==
  /\ sched_pc = "start"
  /\ tick_subs' = subs
  /\ checks_count' = IntOf(OrZero(GetMeta(meta, "checks_count"))) + 1
  /\ idx' = 1
  /\ cur' = NoLocals
  /\ decided' = NoDecision
  /\ done' = <<>>
  /\ booked' = "none"
  /\ sched_pc' = "loop"
  /\ UNCHANGED <<subs, last_id, meta, last_sent, observed, now, client_vars, fn_vars>>

\* Lines 54-86 and 103-109 for the next subscription of the list: query, filter,
\* decide.  No await: the stretch ends at line 97 or at the end of the body.
ProcessSub ==
  /\ sched_pc = "loop"
  /\ idx <= Len(tick_subs)
  /\ LET s == tick_subs[idx] IN
     \E q \in QueryOutcomes :
       IF q.raised \/ ExtractTimes(q.json).raised
       THEN /\ cur' = Locals(s.id, "failed", <<>>, <<>>, 0)
            /\ decided' = NoDecision
            /\ done' = Append(done, Ended(s.id, "failed"))
            /\ idx' = AfterBody(idx, Len(tick_subs), "failed")
            /\ UNCHANGED <<now, sched_pc, meta, observed>>
       ELSE \E t \in SchedClock :
            /\ t >= now
            /\ now' = t
            /\ LET times == ExtractTimes(q.json).times
                   matches == Matches(times, s.dep_from_hhmm, s.dep_to_hhmm)
                   has_matches == Len(matches) > 0
                   new_hash == HashTimesInRange(times, s.dep_from_hhmm, s.dep_to_hhmm)
                   now_ts == t
                   last_report_ts == IntOf(OrZero(GetMeta(meta, SubKey(s.id))))
                   must_periodic_report == MustPeriodicReport(has_matches, now_ts, last_report_ts)
                   is_change == IsChange(new_hash, s.last_hash)
                   should_send == is_change \/ must_periodic_report
               IN  /\ decided' = Decision(has_matches, is_change, must_periodic_report, should_send)
                   /\ observed' = IF has_matches THEN observed \cup {s.id} ELSE observed
                   /\ IF should_send /\ has_matches
                      THEN /\ cur' = Locals(s.id, "send", times, new_hash, now_ts)
                           /\ sched_pc' = "send"
                           /\ UNCHANGED <<idx, meta, done>>
                      ELSE /\ cur' = Locals(s.id, "skip", times, new_hash, now_ts)
                           /\ meta' = NoSend(meta, s.id, now_ts)
                           /\ done' = Append(done, Ended(s.id, "skip"))
                           /\ idx' = AfterBody(idx, Len(tick_subs), "skip")
                           /\ UNCHANGED sched_pc
  /\ UNCHANGED <<subs, last_id, tick_subs, checks_count, last_sent, booked, client_vars, fn_vars>>

\* Line 97 returns or raises; after it returned, lines 99-102: update_last_hash
\* and set_meta, each changing self._data before its _flush, which may raise.
SendMessage ==
  /\ sched_pc = "send"
  /\ LET s == tick_subs[idx] IN
     \E sent \in BOOLEAN, raises \in {"none", "update_last_hash", "set_meta"} :
       /\ ~sent => raises = "none"
       /\ raises = "update_last_hash" => cur.new_hash # <<>>
       /\ subs' = IF sent /\ cur.new_hash # <<>> THEN UpdateLastHash(subs, s.id, cur.new_hash) ELSE subs
       /\ meta' = IF sent /\ raises # "update_last_hash"
                  THEN SetMeta(meta, SubKey(s.id), Str(cur.now_ts))
                  ELSE meta
       /\ cur' = [cur EXCEPT !.outcome = IF ~sent THEN "send_failed"
                                         ELSE IF raises = "none" THEN "notified"
                                         ELSE "persist_failed"]
       /\ last_sent' = IF sent
                       THEN [last_sent EXCEPT ![s.id] =
                               [sent |-> TRUE,
                                matches |-> Matches(cur.times, s.dep_from_hhmm, s.dep_to_hhmm),
                                persisted |-> raises = "none"]]
                       ELSE last_sent
       /\ done' = Append(done, Ended(s.id, cur'.outcome))
       /\ sched_pc' = AfterSend(sent)
       /\ idx' = AfterBody(idx, Len(tick_subs), cur'.outcome)
  /\ UNCHANGED <<last_id, tick_subs, checks_count, decided, observed, booked, now,
                 client_vars, fn_vars>>

\* Lines 111-114 after the last subscription: the two set_meta, each changing
\* self._data before its _flush, which may raise; then line 116 is awaited.
\* The locals of the tick are dead from here on.
TickEnd ==
  /\ sched_pc = "loop"
  /\ idx > Len(tick_subs)
  /\ \E raises \in {"none", "last_check_ts", "checks_count"} :
       /\ meta' = Bookkeep(meta, now, checks_count, raises)
       /\ booked' = IF raises = "none" THEN "ok" ELSE raises
       /\ sched_pc' = AfterTick(raises)
  /\ tick_subs' = <<>>
  /\ idx' = 1
  /\ checks_count' = 0
  /\ cur' = NoLocals
  /\ decided' = NoDecision
  /\ done' = <<>>
  /\ UNCHANGED <<subs, last_id, last_sent, observed, now, client_vars, fn_vars>>

\* Line 116: asyncio.sleep(CHECK_EVERY_SEC) returns.
Wake ==
  /\ sched_pc = "sleep"
  /\ \E t \in SchedClock :
       /\ t >= now + CHECK_EVERY_SEC
       /\ now' = t
  /\ sched_pc' = "start"
  /\ UNCHANGED <<subs, last_id, meta, tick_subs, idx, checks_count, cur, last_sent,
                 decided, done, observed, booked, client_vars, fn_vars>>

\* The handlers run while checker_loop is suspended in an await.
Suspended == sched_pc \in {"send", "sleep"}

\* subscribe_cmd, line 232: storage.add_sub.  self._data has the subscription
\* whether or not _flush raises.
Subscribe ==
  /\ Suspended
  /\ last_id < MaxId
  /\ \E a \in SubscribeArgs :
       /\ last_id' = last_id + 1
       /\ subs' = AddSub(subs, last_id + 1, a.user_id, a.dep_from_hhmm, a.dep_to_hhmm)
  /\ UNCHANGED <<meta, sched_pc, tick_subs, idx, checks_count, cur, last_sent,
                 decided, done, observed, booked, now, client_vars, fn_vars>>

\* unsubscribe_cmd, line 268: storage.del_sub
Unsubscribe ==
  /\ Suspended
  /\ \E user_id \in Users, sub_id \in 1..MaxId :
       /\ subs' = DelSub(subs, user_id, sub_id)
  /\ UNCHANGED <<last_id, meta, sched_pc, tick_subs, idx, checks_count, cur, last_sent,
                 decided, done, observed, booked, now, client_vars, fn_vars>>

Next ==
  \/ TickStart
  \/ ProcessSub
  \/ SendMessage
  \/ TickEnd
  \/ Wake
  \/ Subscribe
  \/ Unsubscribe

Spec == Init /\ [][Next]_vars

(***************************************************************************)
(* The client alone: get_routes called again and again, from time 0.       *)
(***************************************************************************)
InitAtClient ==
  /\ InitClient
  /\ InitScheduler
  /\ InitFn
  /\ now = 0

SpecClient == InitAtClient /\ [][NextClient]_vars


(***************************************************************************)
(* Properties of InfobusClient, checked under SpecClient.                  *)
(***************************************************************************)
Posts == Cardinality({i \in DOMAIN trace : trace[i] = "POST"})
FirstPost ==
  IF Posts = 0 THEN Len(trace) + 1
  ELSE CHOOSE i \in DOMAIN trace : trace[i] = "POST" /\ \A j \in 1..(i - 1) : trace[j] # "POST"
\* The refreshes begun after the first search request of the call.
AuthRefreshes == Cardinality({i \in DOMAIN trace : trace[i] = "GET" /\ i > FirstPost})
\* Of those, the ones that returned.
AuthRefreshesReturned == refreshes - (IF fresh0 = "stale" /\ refreshes > 0 THEN 1 ELSE 0)

\* C1: within one get_routes call, a 401/403 response to the search request
\* starts exactly one more refresh and, that refresh having returned, exactly
\* one resend; a 401/403 to the resend ends the call in an HTTP error; whatever
\* the server answers, a call hands at most two search requests and at most
\* one such refresh to the retry layer, and any other first status ends the
\* call after one search request.
C1_AuthRetryOnce ==
  /\ Posts <= 2
  /\ AuthRefreshes <= 1
  /\ Len(responses) <= Posts
  /\ Len(responses) >= 1 =>
       IF AuthFailure(responses[1])
         THEN /\ AuthRefreshes = 1
              /\ Posts = 1 + AuthRefreshesReturned
         ELSE /\ AuthRefreshes = 0
              /\ Posts = 1
              /\ pc = "done"
  /\ Len(responses) = 2 =>
       /\ pc = "done"
       /\ AuthFailure(responses[2]) => result = "HTTPError"

C1_Witness ==
  /\ pc = "done"
  /\ responses = <<401, 403>>
  /\ trace = <<"POST", "GET", "POST">>
  /\ result = "HTTPError"

\* C2: a request all of whose attempts fail with a timeout or a connection
\* error makes exactly max_retries attempts and then ends in the terminal error;
\* the k-th sleep (k from 0) lasts backoff_base_seconds * 2^k, so the sleeps
\* strictly increase.
C2_RetryBound ==
  /\ tries <= max_retries
  /\ Len(delays) = attempt
  /\ \A k \in DOMAIN delays :
       /\ k = 1 => delays[k] = backoff_base_seconds
       /\ k > 1 => delays[k] = 2 * delays[k - 1] /\ delays[k] > delays[k - 1]
  /\ result = "RetriesExhausted" => tries = max_retries /\ answered = 0
  /\ (pc \in Requesting /\ answered = 0 /\ tries = max_retries) =>
       /\ ENABLED RetriesExhausted
       /\ ~ENABLED TransportFailure
       /\ ~ENABLED PrimingResponse
       /\ ~ENABLED SearchResponse
  /\ (pc \in Requesting /\ tries < max_retries) => ~ENABLED RetriesExhausted

C2_Witness ==
  /\ result = "RetriesExhausted"
  /\ tries = 4
  /\ delays = <<1, 2, 4, 8>>

\* C3: the retry layer makes another attempt only after a transport failure:
\* while a request is still being attempted none of its attempts has yielded an
\* HTTP response, and a request that got a response, of any status, got it on
\* its last attempt.
C3_RetryOnlyOnTransportFailure ==
  /\ pc \in Requesting => answered = 0 /\ tries = attempt
  /\ answered <= 1
  /\ answered = 1 => pc = "done" /\ tries = attempt + 1

C3_Witness ==
  /\ pc = "done"
  /\ responses = <<500>>
  /\ attempt = 2
  /\ tries = 3
  /\ result = "HTTPError"

\* The token and the session cookie are present.
SessionPresent == token # None /\ phpsessid_cf # None /\ phpsessid_cf # Some("")
\* C4: what _auth_is_fresh answers at the start of get_routes is "fresh"
\* exactly when the token is present, the session cookie is present, the expiry
\* is known and now + clock_skew_sec < token_exp; with the skew of 60 s an
\* expiry of now + 30 is stale and one of now + 120 is fresh.
FreshnessAnswer ==
  pc \in {"idle", "done"} =>
       /\ fresh0' \in {"fresh", "stale"}
       /\ fresh0' = "fresh" <=>
            (SessionPresent' /\ token_exp' # None /\ now' + clock_skew_sec < token_exp'[1])
       /\ (SessionPresent' /\ token_exp' = Some(now' + 30)) => fresh0' = "stale"
       /\ (SessionPresent' /\ token_exp' = Some(now' + 120)) => fresh0' = "fresh"
       /\ clock_skew_sec = 60
\* C4: every answer of _auth_is_fresh is the freshness predicate (FreshnessAnswer).
C4_Freshness == [][FreshnessAnswer]_vars

C4_Witness ==
  /\ pc = "POST1"
  /\ trace = <<"POST">>
  /\ attempt = 0
  /\ fresh0 = "fresh"
  /\ token_exp = Some(now + 120)

\* C5: a get_routes call that finds the session stale begins with a refresh,
\* before any search request; if the token or the session cookie is absent
\* after that refresh the call ends in the "Auth is missing" error without a
\* search request, and the first search request is only ever sent with both
\* present.
C5_RefreshFirst ==
  /\ fresh0 = "stale" => trace # <<>> /\ trace[1] = "GET"
  /\ fresh0 = "fresh" => trace # <<>> /\ trace[1] = "POST"
  /\ (fresh0 = "stale" /\ refreshes = 1 /\ AuthRefreshes = 0
        /\ (token = None \/ phpsessid_cf = None \/ phpsessid_cf = Some(""))) =>
       /\ pc = "done"
       /\ result = "AuthMissing"
       /\ Posts = 0
  /\ result = "AuthMissing" => Posts = 0 /\ trace = <<"GET">> /\ refreshes = 1
  /\ pc = "POST1" => SessionPresent /\ hdr = Headers(token, phpsessid_cf)

C5_Witness ==
  /\ pc = "done"
  /\ result = "AuthMissing"
  /\ trace = <<"GET">>
  /\ token # None
  /\ phpsessid_cf = None

\* C6: after a refresh has returned, the cached session is the one of the new
\* priming response: where that response set a session cookie, the cached
\* cookie is that cookie, next to the token and expiry read from the same
\* response; it is never the cookie of an earlier response next to the new
\* token.
C6_SessionOfNewPrimingResponse ==
  (primed # <<>> /\ primed[1] # None /\ primed[1][1].value # "") =>
     phpsessid_cf = Some(primed[1][1].value)

(***************************************************************************)
(* Properties of checker_loop, checked under Spec.                         *)
(***************************************************************************)
\* The subscription in hand, its window, and what the store holds for it.
InHand == tick_subs[idx]
Matching(times) == Matches(times, InHand.dep_from_hhmm, InHand.dep_to_hhmm)
StoredFingerprint ==
  IF \E i \in DOMAIN subs : subs[i].id = InHand.id
  THEN subs[CHOOSE i \in DOMAIN subs : subs[i].id = InHand.id].last_hash
  ELSE InHand.last_hash
LastReportTimestamp(id) == IF meta[SubKey(id)] = None THEN 0 ELSE IntOf(meta[SubKey(id)][1])
\* A step in which the query of the subscription in hand succeeds and the
\* loop decides; the send is begun iff the loop is then suspended in it.
Decides == sched_pc = "loop" /\ idx <= Len(tick_subs) /\ cur'.outcome \in {"skip", "send"}
Emits == sched_pc' = "send"

\* C7: in every tick, for every subscription whose query succeeds, a
\* notification is emitted iff hasMatches and (isChange or mustPeriodicReport),
\* isChange being: the fingerprint is non-empty and differs from the stored one,
\* and mustPeriodicReport: hasMatches and now - lastReportTimestamp >= the
\* periodic report interval.
C7_Decision ==
  Decides =>
    LET hasMatches == \E i \in DOMAIN cur'.times :
                         InRange(cur'.times[i].depart, InHand.dep_from_hhmm, InHand.dep_to_hhmm)
        isChange == cur'.new_hash # <<>> /\ cur'.new_hash # StoredFingerprint
        mustPeriodicReport ==
          hasMatches /\ cur'.now_ts - LastReportTimestamp(InHand.id) >= REPORT_EVERY_SEC
    IN  Emits <=> (hasMatches /\ (isChange \/ mustPeriodicReport))
C7_NotifyIff == [][C7_Decision]_vars
\* A changed set of matches is sent before the report interval has passed.
C7_Witness ==
  /\ sched_pc = "send"
  /\ InHand.last_hash # <<>>
  /\ cur.new_hash # InHand.last_hash
  /\ cur.now_ts - LastReportTimestamp(cur.id) < REPORT_EVERY_SEC

\* C8: once a notification of a subscription has been sent and persisted,
\* a later tick whose query returns the same window-matching offers as that
\* (latest) notification sends nothing while now - lastReportTimestamp is
\* below the report interval, and sends again, with no change detected, as soon
\* as a tick finds now - lastReportTimestamp >= the interval.
C8_SameOffers ==
  /\ Decides
  /\ last_sent[InHand.id].sent
  /\ last_sent[InHand.id].persisted
  /\ Matching(cur'.times) = last_sent[InHand.id].matches
C8_Decision ==
  C8_SameOffers =>
    /\ cur'.new_hash = StoredFingerprint
    /\ Emits <=> (cur'.now_ts - LastReportTimestamp(InHand.id) >= REPORT_EVERY_SEC)
C8_AntiDuplication == [][C8_Decision]_vars
\* The periodic report of unchanged offers, exactly one interval after the last.
C8_Witness ==
  /\ sched_pc = "send"
  /\ last_sent[cur.id].sent
  /\ last_sent[cur.id].persisted
  /\ Matching(cur.times) = last_sent[cur.id].matches
  /\ cur.now_ts - LastReportTimestamp(cur.id) = REPORT_EVERY_SEC

\* C9: after a Notify step whose send succeeded (and whose two store writes
\* returned), the subscription's stored fingerprint is the one computed in
\* that tick, when non-empty, and its lastReportTimestamp is that tick's now;
\* no store write precedes the send, and both are made before the next
\* subscription is taken in hand.
C9_Notified ==
  (sched_pc = "send" /\ cur'.outcome = "notified") =>
    /\ DOMAIN subs' = DOMAIN subs
    /\ \A i \in DOMAIN subs :
         IF subs[i].id = cur.id /\ cur.new_hash # <<>>
         THEN subs'[i] = [subs[i] EXCEPT !.last_hash = cur.new_hash]
         ELSE subs'[i] = subs[i]
    /\ meta' = [meta EXCEPT ![SubKey(cur.id)] = Some(Str(cur.now_ts))]
    /\ cur'.id = cur.id
    /\ idx' = idx + 1
C9_NothingBeforeSend ==
  (sched_pc = "loop" /\ sched_pc' = "send") => (subs' = subs /\ meta' = meta /\ idx' = idx)
C9_PersistAfterSend == [][C9_Notified /\ C9_NothingBeforeSend]_vars
\* The second subscription of the store was notified and its record updated.
C9_Witness ==
  /\ cur.outcome = "notified"
  /\ Len(subs) = 2
  /\ subs[2].id = cur.id
  /\ subs[2].last_hash = cur.new_hash
  /\ subs[1].last_hash # cur.new_hash
  /\ meta[SubKey(cur.id)] = Some(Str(cur.now_ts))

\* C10: on Skip the tick leaves the store as it is, the subscription's stored
\* fingerprint and lastReportTimestamp included; the writes of the tick outside
\* Notify are those of the end of the tick, to the checks counter and the
\* last-check timestamp only.
C10_Skip ==
  (sched_pc = "loop" /\ idx <= Len(tick_subs) /\ cur'.outcome = "skip") =>
    (subs' = subs /\ meta' = meta /\ last_id' = last_id)
C10_Bookkeeping ==
  (sched_pc = "loop" /\ sched_pc' = "sleep") =>
    /\ subs' = subs
    /\ last_id' = last_id
    /\ \A k \in MetaKeys \ {"last_check_ts", "checks_count"} : meta'[k] = meta[k]
C10_SkipWritesNothing == [][C10_Skip /\ C10_Bookkeeping]_vars
\* A subscription reported earlier is skipped with its matches unchanged.
C10_Witness ==
  /\ cur.outcome = "skip"
  /\ cur.new_hash # <<>>
  /\ meta[SubKey(cur.id)] # None
  /\ \E i \in DOMAIN subs : subs[i].id = cur.id /\ subs[i].last_hash = cur.new_hash

(***************************************************************************)
(* checker_loop with the scheduling of asyncio: the coroutine is resumed   *)
(* when its sleep is over, and the two set_meta of lines 111-112 return or *)
(* raise.                                                                  *)
(***************************************************************************)
SpecFair == Init /\ [][Next]_vars /\ WF_vars(TickEnd) /\ WF_vars(Wake)

\* The checks counter, as the store holds it.
ChecksCounter == IF meta["checks_count"] = None THEN 0 ELSE IntOf(meta["checks_count"][1])
BodyFailures == {"failed", "send_failed", "persist_failed"}
\* A tick ends: lines 111-112 were run and the loop awaits its sleep.
TickEnds == sched_pc = "loop" /\ sched_pc' = "sleep"

\* C11: a tick whose two bookkeeping writes return leaves the checks counter
\* one above what it was and the last-check timestamp at the time of the
\* tick's end, however the bodies of its subscriptions ended (notify, skip or
\* failure); the writes are made once every subscription of the tick has ended.
C11_Booked ==
  (TickEnds /\ booked' = "ok") =>
    /\ meta'["checks_count"] = Some(Str(ChecksCounter + 1))
    /\ meta'["last_check_ts"] = Some(Str(now'))
    /\ Len(done) = Len(tick_subs)
C11_Bookkeeping == [][C11_Booked]_vars
\* The second tick booked after a store write of one of its subscriptions raised.
C11_Witness ==
  /\ sched_pc = "sleep"
  /\ booked = "ok"
  /\ now = REPORT_EVERY_SEC + REPORT_EVERY_SEC \div 2
  /\ meta["checks_count"] = Some(<<"2">>)
  /\ meta["last_check_ts"] = Some(Str(now))
  /\ \E i \in 1..MaxId : last_sent[i].sent /\ ~last_sent[i].persisted

\* C12: a failure in the body of one subscription (query, filter, send,
\* persist) ends that body only: the bodies that have ended in a tick are those
\* of the first subscriptions of its list, one each, in order, the next one in
\* hand is the one after them, and the tick ends only after the last of the list.
C12_InOrder ==
  sched_pc \in {"loop", "send"} =>
    /\ Len(done) = idx - 1
    /\ idx <= Len(tick_subs) + (IF sched_pc = "send" THEN 0 ELSE 1)
    /\ \A i \in DOMAIN done : done[i].id = tick_subs[i].id
C12_Step == C12_InOrder' /\ (TickEnds => Len(done) = Len(tick_subs))
C12_FailureEndsOneBody == [][C12_Step]_vars
\* After a failed body the next subscription was notified.
C12_Witness ==
  /\ sched_pc = "loop"
  /\ Len(done) = 2
  /\ done[1].outcome \in BodyFailures
  /\ done[2].outcome = "notified"

\* C13: a tick that ends, its bookkeeping writes having returned or raised,
\* is followed by the sleep and then by the start of another tick (as long as
\* the clock of the model has a reading left for it).
ClockLeft == \E t \in SchedClock : t >= now + CHECK_EVERY_SEC
C13_NextTickStarts ==
  (sched_pc = "loop" /\ idx > Len(tick_subs) /\ ClockLeft) ~> (sched_pc = "start")
\* A tick is about to start after one whose bookkeeping raised.
C13_Witness ==
  /\ sched_pc = "start"
  /\ booked \in {"last_check_ts", "checks_count"}

\* C14: a send that raised is not made again: while a send is awaited, it is
\* the first of its subscription in this tick, and no subscription has two
\* bodies in a tick.
C14_SentOnce ==
  /\ \A i, j \in DOMAIN done : done[i].id = done[j].id => i = j
  /\ sched_pc = "send" =>
       /\ cur.outcome = "send"
       /\ \A i \in DOMAIN done : done[i].id # cur.id
\* The send of the second subscription raised and the loop went on.
C14_Witness ==
  /\ sched_pc = "loop"
  /\ Len(done) = 2
  /\ done[2].outcome = "send_failed"
  /\ idx = 3

(***************************************************************************)
(* in_range, hash_times_in_range and extract_times called on their own:    *)
(* one call, its arguments and its result.                                 *)
(***************************************************************************)
\* Times of day: the ends of the windows 20:00-23:00 and 23:00-01:00, and
\* times inside and outside them.
HourMinutes ==
  { <<20, 0>>, <<22, 59>>, <<23, 0>>, <<23, 1>>, <<23, 30>>, <<0, 30>>, <<12, 0>>, <<1, 0>> }
\* dep_from, dep_to: a window within the day and one that wraps past midnight
Windows == { <<<<20, 0>>, <<23, 0>>>>, <<<<22, 0>>, <<1, 0>>>> }
\* Elements of the list extract_times returns: two offers of the same times
\* and different prices, one that arrives later, one that departs later, one
\* without a depart time, and one whose arrive text is not a time of day.
O2100 == Offer(Hhmm(<<21, 0>>), Hhmm(<<21, 45>>), "10")
O2100Dearer == Offer(Hhmm(<<21, 0>>), Hhmm(<<21, 45>>), "12")
O2100Slower == Offer(Hhmm(<<21, 0>>), Hhmm(<<21, 50>>), "10")
O2230 == Offer(Hhmm(<<22, 30>>), Hhmm(<<23, 10>>), "12")
ONoDepart == Offer(<<>>, Hhmm(<<21, 45>>), "10")
OTwoInOne ==
  Offer(Hhmm(<<21, 0>>),
        Hhmm(<<21, 45>>) \o <<"|">> \o Hhmm(<<22, 30>>) \o <<"-", ">">> \o Hhmm(<<23, 10>>), "10")
FnOffers == {O2100, O2100Dearer, O2100Slower, O2230, ONoDepart, OTwoInOne}
OfferLists == {<<>>} \cup {<<x>> : x \in FnOffers} \cup {<<x, y>> : x \in FnOffers, y \in FnOffers}

InitAtFn ==
  /\ InitClient
  /\ InitScheduler
  /\ InitFn
  /\ now = 0

\* in_range(hhmm, start_hhmm, end_hhmm)
ApplyInRange ==
  \E t \in HourMinutes, a \in HourMinutes, b \in HourMinutes :
    /\ call = NoCall
    /\ call' = [NoCall EXCEPT !.fn = "in_range", !.time = t, !.start = a, !.end = b]
    /\ ret' = [NoRet EXCEPT !.bool = InRange(Hhmm(t), Hhmm(a), Hhmm(b))]
    /\ UNCHANGED <<client_vars, now, sched_vars>>

\* hash_times_in_range(times, dep_from, dep_to) of two lists and one window,
\* and has_matches of the first list as lines 69-70 compute it
ApplyHashTimesInRange ==
  \E w \in Windows, times \in OfferLists, other \in OfferLists :
    /\ call = NoCall
    /\ call' = [NoCall EXCEPT !.fn = "hash_times_in_range", !.start = w[1], !.end = w[2],
                              !.times = times, !.other = other]
    /\ ret' = [NoRet EXCEPT
                 !.text = HashTimesInRange(times, Hhmm(w[1]), Hhmm(w[2])),
                 !.other_text = HashTimesInRange(other, Hhmm(w[1]), Hhmm(w[2])),
                 !.bool = Len(Matches(times, Hhmm(w[1]), Hhmm(w[2]))) > 0]
    /\ UNCHANGED <<client_vars, now, sched_vars>>

\* InfobusClient.extract_times(routes_response)
ApplyExtractTimes ==
  \E j \in RoutesResponses :
    /\ call = NoCall
    /\ call' = [NoCall EXCEPT !.fn = "extract_times", !.json = j]
    /\ ret' = [NoRet EXCEPT !.raised = ExtractTimes(j).raised, !.times = ExtractTimes(j).times]
    /\ UNCHANGED <<client_vars, now, sched_vars>>

NextFn ==
  \/ ApplyInRange
  \/ ApplyHashTimesInRange
  \/ ApplyExtractTimes

SpecFn == InitAtFn /\ [][NextFn]_vars

\* A time of day as the integer HH*100+MM.
HHMM(hm) == hm[1] * 100 + hm[2]
CalledInRange(t, a, b) ==
  call.fn = "in_range" /\ call.time = t /\ call.start = a /\ call.end = b

\* C15: in_range compares the times as the integers HH*100+MM: with
\* start <= end it is true iff start <= time <= end, both ends included; with
\* start > end iff time >= start or time <= end.  For 20:00-23:00 the times
\* 20:00, 22:59 and 23:00 match and 23:01 does not; for 23:00-01:00 the times
\* 23:30 and 00:30 match and 12:00 does not.
C15_InRange ==
  /\ call.fn = "in_range" =>
       ret.bool = (IF HHMM(call.start) <= HHMM(call.end)
                   THEN HHMM(call.start) <= HHMM(call.time) /\ HHMM(call.time) <= HHMM(call.end)
                   ELSE HHMM(call.time) >= HHMM(call.start) \/ HHMM(call.time) <= HHMM(call.end))
  /\ \A t \in {<<20, 0>>, <<22, 59>>, <<23, 0>>} : CalledInRange(t, <<20, 0>>, <<23, 0>>) => ret.bool
  /\ CalledInRange(<<23, 1>>, <<20, 0>>, <<23, 0>>) => ~ret.bool
  /\ \A t \in {<<23, 30>>, <<0, 30>>} : CalledInRange(t, <<23, 0>>, <<1, 0>>) => ret.bool
  /\ CalledInRange(<<12, 0>>, <<23, 0>>, <<1, 0>>) => ~ret.bool
\* 00:30 is in the window 23:00-01:00.
C15_Witness == CalledInRange(<<0, 30>>, <<23, 0>>, <<1, 0>>) /\ ret.bool

\* The offers of a list whose depart time is in the window of the call.
InWindow(offers) ==
  SelectSeq(offers, LAMBDA o : InRange(o.depart, Hhmm(call.start), Hhmm(call.end)))

\* C16: the fingerprint of an offer list and a window is the empty string iff
\* no offer of the list has its depart time in the window, so has_matches
\* holds iff the fingerprint is not empty.
C16_EmptyIffNoMatch ==
  call.fn = "hash_times_in_range" =>
    /\ (ret.text = <<>>) <=> (\A i \in DOMAIN call.times :
          ~InRange(call.times[i].depart, Hhmm(call.start), Hhmm(call.end)))
    /\ ret.bool <=> (ret.text # <<>>)
\* Two offers, none in the window 22:00-01:00, and the empty fingerprint.
C16_Witness ==
  /\ call.fn = "hash_times_in_range"
  /\ call.times = <<O2100, O2100Dearer>>
  /\ call.start = <<22, 0>>
  /\ ret.text = <<>>
  /\ ~ret.bool

\* C17 as stated: two fingerprints are equal iff the sequences of offers in
\* the window they were computed from are equal.
C17_EqualIffSameOffers ==
  call.fn = "hash_times_in_range" =>
    ((ret.text = ret.other_text) <=> (InWindow(call.times) = InWindow(call.other)))

IsHHMM(s) ==
  /\ Len(s) = 5
  /\ IsDigit(s[1]) /\ IsDigit(s[2]) /\ s[3] = ":" /\ IsDigit(s[4]) /\ IsDigit(s[5])
TimesOfDay(offers) == \A i \in DOMAIN offers : IsHHMM(offers[i].depart) /\ IsHHMM(offers[i].arrive)
DepartArrive(offers) == [i \in DOMAIN offers |-> <<offers[i].depart, offers[i].arrive>>]

\* C17: for offers whose depart and arrive are times of day HH:MM, two
\* fingerprints are equal iff the sequences of (depart, arrive) pairs of the
\* offers in the window are equal, in the same order; offers that differ in
\* price alone give the same fingerprint.
C17_EqualIffSameTimes ==
  (call.fn = "hash_times_in_range" /\ TimesOfDay(call.times) /\ TimesOfDay(call.other)) =>
    ((ret.text = ret.other_text)
       <=> (DepartArrive(InWindow(call.times)) = DepartArrive(InWindow(call.other))))
\* Two offers in the window, in either order: the fingerprints differ.
C17_Witness ==
  /\ call.fn = "hash_times_in_range"
  /\ call.times = <<O2100, O2230>>
  /\ call.other = <<O2230, O2100>>
  /\ call.start = <<20, 0>>
  /\ ret.text # <<>>
  /\ ret.text # ret.other_text

\* C19 as stated: extract_times returns a list, and raises nothing, whatever
\* the routes of the response are.
C19_NeverRaises == call.fn = "extract_times" => ~ret.raised

\* C18: the change detection of a decision is true iff the new fingerprint is
\* non-empty and differs from the stored one; with an empty new fingerprint it
\* is false whatever is stored, nothing is sent and the stored fingerprint
\* stays as it was.
C18_Decision ==
  Decides =>
    /\ decided'.is_change <=> (cur'.new_hash # <<>> /\ cur'.new_hash # StoredFingerprint)
    /\ cur'.new_hash = <<>> => (~decided'.is_change /\ ~Emits /\ subs' = subs)
C18_ChangeDetection == [][C18_Decision]_vars
\* A subscription reported earlier has no matches in this tick and is skipped.
C18_Witness ==
  /\ cur.outcome = "skip"
  /\ cur.new_hash = <<>>
  /\ ~decided.is_change
  /\ last_sent[cur.id].sent
  /\ \E i \in DOMAIN subs : subs[i].id = cur.id /\ subs[i].last_hash # <<>>

C20_EmptyIffNeverSent ==
  \A i \in DOMAIN subs :
    /\ (subs[i].last_hash = <<>>) <=> ~last_sent[subs[i].id].sent
    /\ ~last_sent[subs[i].id].sent => LastReportTimestamp(subs[i].id) = 0
    /\ last_sent[subs[i].id].persisted => LastReportTimestamp(subs[i].id) # 0
C20_NeverEmptied ==
  \A i \in DOMAIN subs, j \in DOMAIN subs' :
    (subs[i].id = subs'[j].id /\ subs[i].last_hash # <<>>) => subs'[j].last_hash # <<>>
C20_Step == C20_EmptyIffNeverSent' /\ C20_NeverEmptied
BodyBegins == sched_pc = "loop" /\ idx <= Len(tick_subs) /\ cur' # cur
BodyEnds == sched_pc \in {"loop", "send"} /\ Len(done') = Len(done) + 1

\* C21: within a tick the subscriptions are taken one at a time in the order
\* of the list that list_all_subs returned: a body begins only when no send is
\* awaited and every earlier subscription of the list has ended, it is the
\* body of the next subscription of the list, and while its send is awaited
\* no other body begins or ends; a tick starts only from the sleep that follows
\* the end of the previous tick, which comes after the last body, and it
\* takes the list as the store has it then.
C21_OneAtATime ==
  /\ BodyBegins => /\ Len(done) = idx - 1
                   /\ cur'.id = tick_subs[idx].id
                   /\ tick_subs' = tick_subs
  /\ BodyEnds => /\ done' = Append(done, Ended(tick_subs[idx].id, cur'.outcome))
                 /\ idx' = idx + 1
                 /\ sched_pc' = "loop"
                 /\ tick_subs' = tick_subs
  /\ sched_pc = "send" => (cur'.id = cur.id /\ cur.id = tick_subs[idx].id /\ idx' \in {idx, idx + 1})
C21_TickAfterTick ==
  /\ (sched_pc # "start" /\ sched_pc' = "start") => sched_pc = "sleep"
  /\ (sched_pc # "sleep" /\ sched_pc' = "sleep") =>
       (sched_pc = "loop" /\ idx > Len(tick_subs) /\ Len(done) = Len(tick_subs))
  /\ (sched_pc = "start" /\ sched_pc' # "start") =>
       (sched_pc' = "loop" /\ tick_subs' = subs /\ idx' = 1 /\ done' = <<>>)
C21_Sequential == [][C21_OneAtATime /\ C21_TickAfterTick]_vars
\* In a tick after the first, the first subscription of the list was notified
\* and the second is skipped.
C21_Witness ==
  /\ sched_pc = "loop"
  /\ meta["last_check_ts"] # None
  /\ Len(tick_subs) = 2
  /\ Len(done) = 2
  /\ done[1] = Ended(tick_subs[1].id, "notified")
  /\ done[2] = Ended(tick_subs[2].id, "skip")
  /\ idx = 3

\* A call of get_routes begins; a call of refresh_session_and_token returns.
CallBegins == pc \in {"idle", "done"}
RefreshReturns == refreshes' = refreshes + 1
\* The expiry of a token text can be decoded: three segments, the middle one
\* a JSON object with an int "exp".
ExpiryDecodes(tok) == tok # None /\ tok[1].dots = 2 /\ tok[1].payload = "intexp"

\* C22: a priming request that got a response makes the refresh return, with
\* or without a token: without one the cached token and expiry are absent and
\* the error, if any, is the caller's "Auth is missing"; a token whose expiry
\* cannot be decoded is cached with an unknown expiry; and a get_routes call
\* that finds the cached expiry unknown begins with a refresh.
C22_Refresh ==
  /\ (pc \in {"GET0", "GET1"} /\ pc' # pc /\ result' # "RetriesExhausted") => RefreshReturns
  /\ (RefreshReturns /\ token' = None) =>
       /\ token_exp' = None
       /\ IF pc = "GET0" THEN result' = "AuthMissing" ELSE result' = "none" /\ pc' = "POST2"
  /\ (RefreshReturns /\ ~ExpiryDecodes(token')) => token_exp' = None
  /\ (RefreshReturns /\ ExpiryDecodes(token')) => token_exp' = Some(token'[1].exp)
C22_UnknownIsStale ==
  (CallBegins /\ token_exp = None) =>
    (fresh0' = "stale" /\ pc' = "GET0" /\ trace' = <<"GET">> /\ Session' = Session)
C22_UnknownExpiry == [][C22_Refresh /\ C22_UnknownIsStale]_vars
\* A second call finds a cached token and cookie with unknown expiry and
\* begins with a refresh.
C22_Witness ==
  /\ pc = "GET0"
  /\ trace = <<"GET">>
  /\ refreshes = 0
  /\ token # None
  /\ ~ExpiryDecodes(token)
  /\ phpsessid_cf \notin {None, Some("")}
  /\ token_exp = None

\* A priming request is handed to the retry layer.
PrimingBegins == pc' \in {"GET0", "GET1"} /\ pc' # pc

\* C23: the cached session is replaced only by a refresh that returns; a
\* priming request is begun only by a get_routes call that finds the session
\* not fresh or after a 401/403 to its first search request; a call that finds
\* the session fresh and gets another status sends no priming request and
\* leaves the session as it is, whichever route the session was primed for.
C23_Step ==
  /\ Session' # Session => RefreshReturns
  /\ PrimingBegins =>
       IF pc' = "GET0"
       THEN CallBegins /\ fresh0' = "stale"
       ELSE pc = "POST1" /\ responses' # <<>> /\ AuthFailure(responses'[Len(responses')])
C23_FreshCall ==
  (fresh0' = "fresh" /\ responses' # <<>> /\ ~AuthFailure(responses'[1])) =>
    /\ pc' = "done"
    /\ trace' = <<"POST">>
    /\ refreshes' = 0
    /\ Session' = Session
    /\ primed_route' = primed_route
C23_OneSharedSession == [][C23_Step /\ C23_FreshCall]_vars
\* A call for one route was answered 200 with the session primed for the other.
C23_Witness ==
  /\ pc = "done"
  /\ result = "returned"
  /\ fresh0 = "fresh"
  /\ responses = <<200>>
  /\ trace = <<"POST">>
  /\ primed_route # None
  /\ primed_route # route

\* C24 as stated: every search request handed to the retry layer, the resend
\* after the refresh that follows a 401/403 included, carries a bearer token
\* and a session cookie that are present, those of the cached session.
C24_SearchCarriesSession ==
  pc \in {"POST1", "POST2"} =>
    /\ hdr.authorization # None
    /\ hdr.cookie \notin {None, Some("")}
    /\ SessionPresent

\* The priming request of a refresh is being attempted.
Priming == pc \in {"GET0", "GET1"}

\* C25: a refresh whose priming request fails in all of its max_retries
\* attempts changes nothing of the cached cookie, token and expiry, neither in
\* the failed attempts nor at the end, and get_routes ends in the terminal
\* error of the retry layer without another request.
C25_Step ==
  /\ (Priming /\ pc' = pc) => Session' = Session
  /\ (Priming /\ attempt = max_retries) =>
       /\ pc' = "done"
       /\ result' = "RetriesExhausted"
       /\ Session' = Session
       /\ cookies' = cookies
       /\ refreshes' = refreshes
       /\ trace' = trace
  /\ (Priming /\ result' = "RetriesExhausted") => (attempt = max_retries /\ Session' = Session)
C25_FailedRefresh == [][C25_Step]_vars
\* The refresh that followed a 401 failed: the call ended in the terminal
\* error and the session that was rejected is still cached.
C25_Witness ==
  /\ pc = "done"
  /\ result = "RetriesExhausted"
  /\ trace = <<"POST", "GET">>
  /\ responses = <<401>>
  /\ delays = <<1, 2, 4, 8>>
  /\ SessionPresent
  /\ hdr = Headers(token, phpsessid_cf)

\* The ids of the subscriptions of a list, in its order.
Ids(list) == [i \in DOMAIN list |-> list[i].id]
\* A step of checker_loop, as opposed to one of a command handler.
LoopStep == cur' # cur \/ sched_pc' # sched_pc

\* C26: whatever subscribe and unsubscribe did while the send was awaited, a
\* step of the loop leaves in the store the subscriptions that were there, no
\* more and no fewer and in the same order: the writes after the send change
\* nothing but the fingerprint of the subscription in hand, if it is still
\* stored, and hand out no id.
C26_Step ==
  LoopStep =>
    /\ Ids(subs') = Ids(subs)
    /\ last_id' = last_id
    /\ \A i \in DOMAIN subs :
         \/ subs'[i] = subs[i]
         \/ /\ sched_pc = "send"
            /\ subs[i].id = cur.id
            /\ subs'[i] = [subs[i] EXCEPT !.last_hash = cur.new_hash]
C26_CommandsDecideTheSet == [][C26_Step]_vars
\* While the send was awaited the subscription in hand was deleted and another
\* one added; the send has returned and the store writes were made.
C26_Witness ==
  /\ sched_pc = "loop"
  /\ cur.outcome = "notified"
  /\ \E i \in DOMAIN tick_subs : tick_subs[i].id = cur.id
  /\ \A i \in DOMAIN subs : subs[i].id # cur.id
  /\ \E i \in DOMAIN subs : \A j \in DOMAIN tick_subs : tick_subs[j].id # subs[i].id
  /\ meta[SubKey(cur.id)] = Some(Str(cur.now_ts))

=============================================================================
